---------------------------- MODULE Spec2Model ----------------------------
(***************************************************************************)
(* Model of the Blancco report loader (blancco_api_to_db_orig.py, the DB   *)
(* pipeline, and blancco_api_to_db.py, the file-export variant).           *)
(*                                                                         *)
(* A Python str, an XML tag, a dotted key and a SQL varchar are all        *)
(* sequences of one-character strings, so that lower(), replace(),         *)
(* slicing, concatenation and prefix tests are computed as the code        *)
(* computes them.                                                          *)
(***************************************************************************)
EXTENDS Integers, Sequences, FiniteSets, Bags, TLC

-----------------------------------------------------------------------------
(* Bounds of the model *)

\* clock ticks per hour: the clock is observed at half-hour granularity
TicksPerHour == 2
\* hours of wall-clock time after the first checkpoint that the clock can reach
MaxHours == 3
\* largest number of disk entries of a generated report
MaxDisks == 2
\* largest number of records of a generated batch
MaxBatch == 2
\* how often the Load Reconciler is run again on a batch
Reruns == 1

-----------------------------------------------------------------------------
(* Text *)

\* Python None, pandas NaN and SQL NULL: a value that is no text (its one
\* element is not a character)
None == <<"None">>

Dot == <<".">>

w_report == <<"r", "e", "p", "o", "r", "t">>
w_blancco_data == <<"b", "l", "a", "n", "c", "c", "o", "_", "d", "a", "t", "a">>
w_description == <<"d", "e", "s", "c", "r", "i", "p", "t", "i", "o", "n">>
w_blancco_hardware_report == <<"b", "l", "a", "n", "c", "c", "o", "_", "h", "a", "r", "d", "w", "a", "r", "e", "_", "r", "e", "p", "o", "r", "t">>
w_disks == <<"d", "i", "s", "k", "s">>
w_blancco_software_report == <<"b", "l", "a", "n", "c", "c", "o", "_", "s", "o", "f", "t", "w", "a", "r", "e", "_", "r", "e", "p", "o", "r", "t">>
w_blancco_erasure_report == <<"b", "l", "a", "n", "c", "c", "o", "_", "e", "r", "a", "s", "u", "r", "e", "_", "r", "e", "p", "o", "r", "t">>
w_erasures == <<"e", "r", "a", "s", "u", "r", "e", "s">>
w_user_data == <<"u", "s", "e", "r", "_", "d", "a", "t", "a">>
w_hardware == <<"h", "a", "r", "d", "w", "a", "r", "e">>
w_software == <<"s", "o", "f", "t", "w", "a", "r", "e">>
w_erasure == <<"e", "r", "a", "s", "u", "r", "e">>
w_disk == <<"d", "i", "s", "k">>
w_entries == <<"e", "n", "t", "r", "i", "e", "s">>
w_entry == <<"e", "n", "t", "r", "y">>
w_document_id == <<"d", "o", "c", "u", "m", "e", "n", "t", "_", "i", "d">>
w_type == <<"t", "y", "p", "e">>
w_target == <<"t", "a", "r", "g", "e", "t">>
w_serial == <<"s", "e", "r", "i", "a", "l">>
w_start_time == <<"s", "t", "a", "r", "t", "_", "t", "i", "m", "e">>
w_end_time == <<"e", "n", "d", "_", "t", "i", "m", "e">>
w_erasure_standard_name == <<"e", "r", "a", "s", "u", "r", "e", "_", "s", "t", "a", "n", "d", "a", "r", "d", "_", "n", "a", "m", "e">>
w_timestamp == <<"t", "i", "m", "e", "s", "t", "a", "m", "p">>
w_system == <<"s", "y", "s", "t", "e", "m">>
w_imei == <<"i", "m", "e", "i">>
w_imei_two == <<"i", "m", "e", "i", "_", "t", "w", "o">>
w_meid == <<"m", "e", "i", "d">>
w_meid_fourteen == <<"m", "e", "i", "d", "_", "f", "o", "u", "r", "t", "e", "e", "n">>
w_state == <<"s", "t", "a", "t", "e">>
w_vendor == <<"v", "e", "n", "d", "o", "r">>
w_hash_data == <<"h", "a", "s", "h", "_", "d", "a", "t", "a">>

\* the literals of the merge and join code
k_document_id == w_description \o Dot \o w_document_id
k_target_type == w_erasure \o Dot \o w_target \o Dot \o w_type
k_disk_type == w_disk \o Dot \o w_type
k_start_time == w_erasure \o Dot \o w_start_time
k_end_time == w_erasure \o Dot \o w_end_time
k_standard_name == w_erasure \o Dot \o w_erasure_standard_name
k_timestamp == w_erasure \o Dot \o w_timestamp
k_target_serial == w_erasure \o Dot \o w_target \o Dot \o w_serial
k_imei == w_hardware \o Dot \o w_system \o Dot \o w_imei
k_imei_two == w_hardware \o Dot \o w_system \o Dot \o w_imei_two
k_meid == w_hardware \o Dot \o w_system \o Dot \o w_meid
k_meid_fourteen == w_hardware \o Dot \o w_system \o Dot \o w_meid_fourteen
k_state == w_erasure \o Dot \o w_state

Uppers == <<"A", "B", "C", "D", "E", "F", "G", "H", "I", "J", "K", "L", "M",
            "N", "O", "P", "Q", "R", "S", "T", "U", "V", "W", "X", "Y", "Z">>
Lowers == <<"a", "b", "c", "d", "e", "f", "g", "h", "i", "j", "k", "l", "m",
            "n", "o", "p", "q", "r", "s", "t", "u", "v", "w", "x", "y", "z">>
Digits == {"0", "1", "2", "3", "4", "5", "6", "7", "8", "9"}

\* str.lower(), on ASCII
lower(s) ==
    [i \in 1..Len(s) |->
        IF \E j \in 1..Len(Uppers) : Uppers[j] = s[i]
        THEN Lowers[CHOOSE j \in 1..Len(Uppers) : Uppers[j] = s[i]]
        ELSE s[i]]

\* s.startswith(p)
StartsWith(s, p) == Len(s) >= Len(p) /\ SubSeq(s, 1, Len(p)) = p

Front(s) == SubSeq(s, 1, Len(s) - 1)

\* dict.update: the keys of other overwrite those of d
Update(d, other) == other @@ d

EmptyDict == [k \in {} |-> None]

-----------------------------------------------------------------------------
(* XML elements: tag, attributes, text and children *)

El(tag, attrib, text, kids) ==
    [tag |-> tag, attrib |-> attrib, text |-> text, kids |-> kids]
NoAttrib == [a \in {} |-> None]
Leaf(tag, text) == El(tag, NoAttrib, text, <<>>)
Node(tag, kids) == El(tag, NoAttrib, None, kids)

RECURSIVE Concat(_)
Concat(ss) == IF ss = <<>> THEN <<>> ELSE Concat(Front(ss)) \o ss[Len(ss)]

\* XPath steps over a node list: the child axis with a name test, and '*'
Star(nodes) == Concat([i \in 1..Len(nodes) |-> nodes[i].kids])
Named(nodes, tag) == SelectSeq(nodes, LAMBDA n : n.tag = tag)
NotNamed(nodes, tag) == SelectSeq(nodes, LAMBDA n : n.tag # tag)
Child(nodes, tag) == Named(Star(nodes), tag)

-----------------------------------------------------------------------------
(* Tag Normalizer *)

Replace(s, old, new) == [i \in 1..Len(s) |-> IF s[i] = old THEN new ELSE s[i]]
Reverse(s) == [i \in 1..Len(s) |-> s[Len(s) + 1 - i]]
Min(a, b) == IF a < b THEN a ELSE b

\* the tag computed from a non-empty name attribute: tag_name[2:] + tag_name[0:2][::-1]
\* when the sanitized name starts with a digit
TagName(name) ==
    LET tag_name == Replace(Replace(name, " ", "_"), ".", "_")
    IN  IF tag_name[1] \in Digits
        THEN SubSeq(tag_name, 3, Len(tag_name)) \o Reverse(SubSeq(tag_name, 1, Min(2, Len(tag_name))))
        ELSE tag_name

\* lxml accepts as a tag only an XML name without a colon
NameStartChars == {Uppers[i] : i \in 1..Len(Uppers)} \cup {Lowers[i] : i \in 1..Len(Lowers)} \cup {"_"}
NameChars == NameStartChars \cup Digits \cup {".", "-"}
ValidTag(t) ==
    /\ t # <<>>
    /\ t[1] \in NameStartChars
    /\ \A i \in 1..Len(t) : t[i] \in NameChars

Pop(attrib, a) == [x \in DOMAIN attrib \ {a} |-> attrib[x]]

\* one element of findall('//*[@name]'): the try block fails on an empty
\* name (tag_name[0]) and on a tag lxml refuses, and leaves the element as
\* it was; the type attribute is removed either way
Renamed(element) ==
    IF "name" \in DOMAIN element.attrib /\ element.tag \in {w_entries, w_entry}
    THEN LET name == element.attrib["name"]
             done == name # <<>> /\ ValidTag(TagName(name))
             e1 == IF done
                   THEN [element EXCEPT !.tag = TagName(name), !.attrib = Pop(@, "name")]
                   ELSE element
         IN  [e1 EXCEPT !.attrib = Pop(@, "type")]
    ELSE element

RECURSIVE reformat_xml(_)
reformat_xml(xml_data) ==
    LET e == Renamed(xml_data)
    IN  [e EXCEPT !.kids = [i \in 1..Len(e.kids) |-> reformat_xml(e.kids[i])]]

-----------------------------------------------------------------------------
(* Flattener *)

RECURSIVE flatten_overwrite(_, _)
flatten_overwrite(xml, prefix) ==
    IF xml = <<>> THEN EmptyDict
    ELSE LET ret == flatten_overwrite(Front(xml), prefix)
             element == xml[Len(xml)]
         IN  IF Len(element.kids) > 0
             THEN LET node_prefix == prefix \o Dot \o element.tag
                      result == flatten_overwrite(element.kids, node_prefix)
                  IN  Update(ret, result)
             ELSE Update(ret, lower(prefix \o Dot \o element.tag) :> element.text)

RECURSIVE flatten_leaf_keeps(_, _)
flatten_leaf_keeps(xml, prefix) ==
    IF xml = <<>> THEN EmptyDict
    ELSE LET ret == flatten_leaf_keeps(Front(xml), prefix)
             element == xml[Len(xml)]
         IN  IF Len(element.kids) > 0
             THEN LET node_prefix == prefix \o Dot \o element.tag
                      result == flatten_leaf_keeps(element.kids, node_prefix)
                  IN  ret @@ result
             ELSE ret @@ (lower(prefix \o Dot \o element.tag) :> element.text)

RECURSIVE flatten(_, _)
flatten(xml, prefix) ==
    IF xml = <<>> THEN EmptyDict
    ELSE LET ret == flatten(Front(xml), prefix)
             element == xml[Len(xml)]
         IN  IF Len(element.kids) > 0
             THEN LET node_prefix == prefix \o Dot \o element.tag
                      result == flatten(element.kids, node_prefix)
                  IN  ret @@ result
             ELSE Update(ret, lower(prefix \o Dot \o element.tag) :> element.text)

-----------------------------------------------------------------------------
(* Report Assembler *)

\* the disk join of one erasure record: the list comprehension over the
\* disks when there are several, the single disk otherwise
RECURSIVE JoinMatching(_, _)
JoinMatching(e, disks) ==
    IF disks = <<>> THEN e
    ELSE LET e1 == JoinMatching(e, Front(disks))
             disk == disks[Len(disks)]
         IN  IF k_target_type \in DOMAIN e1 /\ disk[k_disk_type] = e1[k_target_type]
             THEN Update(e1, disk)
             ELSE e1

JoinDisks_more_than_two(e, disks) ==
    IF Len(disks) > 2 THEN JoinMatching(e, disks)
    ELSE IF Len(disks) = 1 THEN Update(e, disks[1])
    ELSE e

JoinDisks(e, disks) ==
    IF Len(disks) > 1 THEN JoinMatching(e, disks)
    ELSE IF Len(disks) = 1 THEN Update(e, disks[1])
    ELSE e

\* disk['disk.type'] raises KeyError when the condition reaches it
JoinRaises(e, disks) ==
    /\ Len(disks) > 1
    /\ k_target_type \in DOMAIN e
    /\ \E i \in 1..Len(disks) : k_disk_type \notin DOMAIN disks[i]

Sections(xml_data) ==
    LET data == Child(<<xml_data>>, w_blancco_data)
        hw == Star(Child(data, w_blancco_hardware_report))
        ers == Star(Child(Child(data, w_blancco_erasure_report), w_erasures))
        dks == Star(Named(hw, w_disks))
    IN  [description |-> flatten(Star(Child(data, w_description)), w_description),
         hardware |-> flatten(NotNamed(hw, w_disks), w_hardware),
         software |-> flatten(Star(Child(data, w_blancco_software_report)), w_software),
         user_data |-> flatten(Star(Child(<<xml_data>>, w_user_data)), w_user_data),
         erasures |-> [i \in 1..Len(ers) |-> flatten(ers[i].kids, w_erasure)],
         disks |-> [i \in 1..Len(dks) |-> flatten(dks[i].kids, w_disk)]]

Assemble_without_user_data(erasure, s) ==
    LET e1 == Update(Update(erasure, s.description), s.hardware)
        e2 == JoinDisks(e1, s.disks)
    IN  Update(e2, s.software)

Assemble(erasure, s) ==
    LET e1 == Update(Update(erasure, s.description), s.hardware)
        e2 == JoinDisks(e1, s.disks)
    IN  Update(Update(e2, s.software), s.user_data)

\* the records of one report, or the exception that ends the call
parse_report(xml_data) ==
    LET s == Sections(xml_data)
        raises == \E i \in 1..Len(s.erasures) :
                     JoinRaises(Update(Update(s.erasures[i], s.description), s.hardware),
                                s.disks)
    IN  IF raises THEN [raised |-> TRUE, records |-> <<>>]
        ELSE [raised |-> FALSE,
              records |-> [i \in 1..Len(s.erasures) |-> Assemble(s.erasures[i], s)]]

-----------------------------------------------------------------------------
(* Window Cursor *)

Hour == TicksPerHour
MaxNow == MaxHours * TicksPerHour

\* A timestamp of control.json is the text 'YYYY-MM-DD HH:MM:SS' and what
\* follows it: t is the time its first 19 characters spell, in ticks, and
\* frac the fraction of a second written after them.  A datetime of the
\* program is a number of ticks; every datetime main holds has microsecond 0.
DateText(t, frac) == [t |-> t, frac |-> frac]

\* datetime.isoformat(sep=' ') of a datetime with microsecond 0, as
\* DateTimeEncoder writes it
isoformat(d) == DateText(d, 0)

\* datetime.strptime(text[:19], '%Y-%m-%d %H:%M:%S')
strptime19(text) == text.t

ControlFile(from_text, to_text) == [valid |-> TRUE, from_date |-> from_text, to_date |-> to_text]
\* a control file json.load refuses: write_control_file opens it with 'w',
\* which empties it, before json.dump fills it
Corrupt == [valid |-> FALSE, from_date |-> DateText(0, 0), to_date |-> DateText(0, 0)]

Window(from_date, to_date) == [from_date |-> from_date, to_date |-> to_date]

get_dates_clamp_at_equal(ctl, clock) ==
    LET from_date == strptime19(ctl.to_date)
        to_date == from_date + Hour
    IN  IF to_date >= clock THEN Window(from_date, from_date)
        ELSE Window(from_date, to_date)

get_dates_no_clamp(ctl, clock) ==
    LET from_date == strptime19(ctl.to_date)
    IN  Window(from_date, from_date + Hour)

get_dates(ctl, clock) ==
    LET from_date == strptime19(ctl.to_date)
        to_date == from_date + Hour
    IN  IF to_date > clock THEN Window(from_date, from_date)
        ELSE Window(from_date, to_date)

write_control_file(d) == ControlFile(isoformat(d.from_date), isoformat(d.to_date))

\* the checkpoint: the time the next get_dates starts from
Checkpoint(ctl) == strptime19(ctl.to_date)

-----------------------------------------------------------------------------
(* Export API *)

\* A response text: what etree.parse makes of it (kind, root) and what
\* text.find('NO REPORTS FOUND') returns for it (find).
Text(kind, find, root) == [kind |-> kind, find |-> find, root |-> root]
NoRoot == Leaf(<<>>, None)
NoneText == Text("None", -1, NoRoot)
EmptyText == Text("empty", -1, NoRoot)
Document(root) == Text("xml", -1, root)

Response(raised, status, text) == [raised |-> raised, status |-> status, text |-> text]

\* what call_blancco_api makes of the response of requests.post
call_blancco_api(response) ==
    IF response.raised THEN [raised |-> TRUE, value |-> NoneText]
    ELSE IF response.status = 200 THEN [raised |-> FALSE, value |-> response.text]
    ELSE IF response.text.find > 0 THEN [raised |-> FALSE, value |-> NoneText]
    ELSE [raised |-> TRUE, value |-> NoneText]

\* the truth value of `xml` in main
Truthy(text) == text.kind \notin {"None", "empty"}

-----------------------------------------------------------------------------
(* Batch Cleanser and Load Reconciler *)

TruncLimit == 4000
VarcharLen == 36
DefaultBatchSize == 1000

w_fields == <<"f", "i", "e", "l", "d", "s">>
F(name) == w_user_data \o Dot \o w_fields \o Dot \o name
k_comments == F(<<"c", "o", "m", "m", "e", "n", "t", "s">>)
truncate_columns == {
    F(<<"b", "a", "t", "t", "e", "r", "y", "c", "h", "a", "r", "g", "i", "n", "g">>),
    F(<<"c", "o", "m", "m", "e", "n", "t", "s">>),
    F(<<"c", "o", "u", "n", "t", "r", "y">>),
    F(<<"d", "e", "v", "i", "c", "e", "_", "i", "d", "e", "n", "t", "i", "f", "i", "e", "r">>),
    F(<<"e", "r", "a", "s", "u", "r", "e", "_", "p", "e", "r", "s", "o", "n">>),
    F(<<"i", "m", "e", "i", "_", "2">>),
    F(<<"i", "m", "e", "i", "_", "3">>),
    F(<<"o", "p", "p", "o", "_", "d", "e", "v", "i", "c", "e", "_", "i", "m", "e", "i", "c", "a", "c", "h", "e", "_", "1">>),
    F(<<"o", "p", "p", "o", "_", "d", "e", "v", "i", "c", "e", "_", "i", "m", "e", "i", "c", "a", "c", "h", "e", "_", "2">>),
    F(<<"p", "e", "r", "s", "i", "s", "t", "_", "s", "y", "s", "_", "s", "h", "o", "w", "_", "d", "e", "v", "i", "c", "e", "_", "i", "m", "e", "i", "_", "1">>),
    F(<<"p", "e", "r", "s", "i", "s", "t", "_", "s", "y", "s", "_", "u", "p", "d", "a", "t", "e", "r", "_", "i", "m", "e", "i", "_", "1">>),
    F(<<"p", "e", "r", "s", "i", "s", "t", "_", "s", "y", "s", "_", "u", "p", "d", "a", "t", "e", "r", "_", "i", "m", "e", "i", "_", "2">>),
    F(<<"r", "_", "c", "o", "u", "n", "t", "e", "r">>),
    F(<<"r", "_", "c", "o", "u", "n", "t", "r", "y">>),
    F(<<"r", "_", "e", "r", "a", "s", "u", "r", "e">>),
    F(<<"r", "_", "e", "s", "i", "m">>),
    F(<<"r", "_", "f", "m", "i", "p">>),
    F(<<"r", "_", "f", "r", "p">>),
    F(<<"r", "_", "l", "o", "c", "a", "t", "i", "o", "n">>),
    F(<<"r", "_", "m", "d", "m">>),
    F(<<"r", "_", "p", "l", "a", "c", "e">>),
    F(<<"r", "_", "p", "r", "o", "c", "e", "s", "s">>),
    F(<<"r", "_", "r", "e", "g", "i", "o", "n">>),
    F(<<"r", "_", "w", "o", "r", "k", "s", "t", "a", "i", "o", "n">>),
    F(<<"r", "_", "w", "o", "r", "k", "s", "t", "a", "t", "i", "o", "n">>),
    F(<<"r", "o", "_", "c", "o", "n", "f", "i", "g", "_", "h", "w", "_", "i", "m", "e", "i", "_", "s", "v", "_", "e", "n", "a", "b", "l", "e", "_", "1">>),
    F(<<"r", "o", "_", "c", "o", "n", "f", "i", "g", "_", "h", "w", "_", "i", "m", "e", "i", "_", "s", "v", "_", "s", "h", "o", "w", "_", "t", "w", "o", "_", "2">>),
    F(<<"r", "o", "_", "i", "m", "e", "i", "_", "m", "a", "t", "c", "h", "_", "s", "t", "a", "t", "u", "s", "_", "3">>),
    F(<<"r", "o", "_", "p", "r", "o", "d", "u", "c", "t", "_", "i", "m", "e", "i", "s", "v", "_", "3">>),
    F(<<"t", "e", "c", "h", "n", "i", "c", "i", "a", "n", "_", "n", "a", "m", "e">>)}

\* the columns of blancco_data_stage that the model keeps, lower-cased
destination_columns ==
    {k_document_id, k_start_time, k_end_time, k_standard_name, k_timestamp,
     k_target_serial, k_imei, k_imei_two, k_meid, k_meid_fourteen, k_state,
     k_comments, w_hash_data}

\* pd.DataFrame(reports): one row per record, over the union of their keys
DataFrame(reports) ==
    LET columns == UNION {DOMAIN reports[i] : i \in 1..Len(reports)}
    IN  [i \in 1..Len(reports) |->
            [c \in columns |-> IF c \in DOMAIN reports[i] THEN reports[i][c] ELSE None]]

Columns(frame) == IF frame = <<>> THEN {} ELSE DOMAIN frame[1]

RECURSIVE drop_duplicates(_)
drop_duplicates(frame) ==
    IF frame = <<>> THEN <<>>
    ELSE LET kept == drop_duplicates(Front(frame))
             row == frame[Len(frame)]
         IN  IF \E i \in 1..Len(kept) : kept[i] = row THEN kept ELSE Append(kept, row)

Truncated(row) ==
    [c \in DOMAIN row |->
        IF c \in truncate_columns /\ row[c] # None
        THEN SubSeq(row[c], 1, Min(Len(row[c]), TruncLimit))
        ELSE row[c]]

\* write_to_stage, lines 145-155; df['description.document_id'] raises
\* KeyError on a frame without that column
Cleansed(frame) ==
    LET kept == SelectSeq(drop_duplicates(frame), LAMBDA row : row[k_document_id] # None)
    IN  [i \in 1..Len(kept) |-> Truncated(kept[i])]

\* the row an INSERT of the mapped columns leaves in the staging table
StagedRow(row) ==
    [c \in destination_columns |->
        IF c \in DOMAIN row THEN (IF row[c] = None THEN <<>> ELSE row[c]) ELSE None]

\* the parameter rows of write_to_stage, or the KeyError
write_to_stage(frame) ==
    IF k_document_id \notin Columns(frame) THEN [raised |-> TRUE, params |-> <<>>]
    ELSE LET clean == Cleansed(frame)
         IN  [raised |-> FALSE, params |-> [i \in 1..Len(clean) |-> StagedRow(clean[i])]]

\* the number of rows committed when the insert fails after `chunks` chunks
Committed(params, batch_size, chunks) == Min(Len(params), chunks * batch_size)

\* ISNULL(v, '')
ISNULL_bare(v) == v
ISNULL(v) == IF v = None THEN <<>> ELSE v
\* the + of two varchars: NULL when an operand is NULL
Plus(a, b) == IF a = None \/ b = None THEN None ELSE a \o b
\* CAST(v AS VARCHAR(36))
CAST(v) == IF v = None THEN None ELSE SubSeq(v, 1, Min(Len(v), VarcharLen))
\* HASHBYTES('MD5', v): NULL of NULL, and taken to tell any two texts apart
HASHBYTES(v) == IF v = None THEN None ELSE <<"md5">> \o v

\* the SET expression of update_data_hash
hash_data(s) ==
    HASHBYTES(Plus(Plus(Plus(Plus(Plus(Plus(Plus(Plus(Plus(
        CAST(s[k_document_id]),
        ISNULL(s[k_start_time])),
        ISNULL(s[k_end_time])),
        ISNULL(s[k_standard_name])),
        ISNULL(s[k_timestamp])),
        ISNULL(s[k_target_serial])),
        ISNULL(s[k_imei])),
        ISNULL(s[k_imei_two])),
        ISNULL(s[k_meid])),
        ISNULL(s[k_meid_fourteen])))

update_data_hash(rows) ==
    [i \in 1..Len(rows) |-> [rows[i] EXCEPT ![w_hash_data] = hash_data(rows[i])]]

\* the rows of the fact table with the hash of s: the LEFT JOIN's ON clause
\* (NULL equals nothing)
Joined(s, d_rows) ==
    {d \in d_rows : s[w_hash_data] # None /\ d[w_hash_data] # None
                    /\ d[w_hash_data] = s[w_hash_data]}

\* an inner join keeps the staged rows that have a fact row, and none of
\* those fact rows is the NULL row the WHERE clause asks for
write_to_final_inner_join(s_rows, d_rows) ==
    {s_rows[i] : i \in {j \in 1..Len(s_rows) :
                          \E d \in Joined(s_rows[j], d_rows) : d[w_hash_data] = None}}

\* the rows the INSERT ... SELECT DISTINCT of write_to_final adds; the
\* load_datetime column of the staging table is left out of the rows
write_to_final(s_rows, d_rows) ==
    {s_rows[i] : i \in {j \in 1..Len(s_rows) : Joined(s_rows[j], d_rows) = {}}}

-----------------------------------------------------------------------------
(* State *)

VARIABLES
    now,        \* the wall clock as get_dates last read it, in ticks
    store,      \* the reports of the export API, by the hour they fall in
    control,    \* the content of control.json
    pc,         \* where main is
    exitCode,   \* how the last run of main ended
    dates,      \* main's dates; its executeParms in the file-export pipeline
    xml,        \* the text the API call returned
    df,         \* the data frame
    stage,      \* the rows of blancco_data_stage
    fact,       \* the rows of blancco_data
    last,       \* the last step of main and how it ended
    calls,      \* the windows this run has passed to the export API
    pre,        \* control file and tables as the current cycle found them
    round,      \* the completed runs of the Load Reconciler on df
    inst,       \* the instances of main that run side by side on one database
    sink        \* the rows the file-export pipeline has passed to its writer

vars == <<now, store, control, pc, exitCode, dates, xml, df, stage, fact,
          last, calls, pre, round, inst, sink>>

\* main's locals in one of the instances that run side by side
Procs == {1, 2}
\* wiped: since this instance last cleared the staging table, another one
\* has cleared it while the rows this one had staged were not yet merged
Instance(at, d, text, frame, wiped) ==
    [pc |-> at, dates |-> d, xml |-> text, df |-> frame, wiped |-> wiped]
NoInst == [p \in Procs |-> Instance("stopped", Window(0, 0), NoneText, <<>>, FALSE)]

-----------------------------------------------------------------------------
(* The export API's reports *)

w_root == <<"r", "o", "o", "t">>
t_a == <<"a">>
t_1 == <<"1">>
t_ok == <<"o", "k">>
t_ko == <<"k", "o">>
t_string == <<"s", "t", "r", "i", "n", "g">>

\* the elements of a raw report: entries and entry nodes named by attribute
RawEntry(name, text) == El(w_entry, ("name" :> name) @@ ("type" :> t_string), text, <<>>)
RawEntries(name, kids) == El(w_entries, "name" :> name, None, kids)
RawErasure(start_time, state) ==
    RawEntries(w_erasure, <<RawEntry(w_start_time, start_time), RawEntry(w_state, state)>>)
RawReport(document_id, erasures) ==
    Node(w_report,
         <<Node(w_blancco_data,
                <<Node(w_description, <<Leaf(w_document_id, document_id)>>),
                  Node(w_blancco_erasure_report, <<RawEntries(w_erasures, erasures)>>)>>)>>)

\* The documents an hour of the store can hold: no report; a report whose
\* erasures are one erasure twice and a third that differs from it in its
\* state only, with a report without document id; a report without erasures.
DocNames == {"none", "full", "bare"}
StoreDoc(name) ==
    CASE name = "full" ->
            Node(w_root, <<RawReport(t_a, <<RawErasure(t_1, t_ok), RawErasure(t_1, t_ok),
                                            RawErasure(t_1, t_ko)>>),
                           RawReport(None, <<RawErasure(t_1, t_ok)>>)>>)
      [] name = "bare" ->
            Node(w_root, <<RawReport(t_a, <<>>)>>)
      [] OTHER -> Node(w_root, <<>>)

Hours == 0..(MaxHours - 1)
HourOf(d) == d \div TicksPerHour

\* what the API answers for the window when it works: the reports of the
\* hour, or 'NO REPORTS FOUND' (inside an error document, or no text at all)
Served(reports, window) ==
    LET name == IF HourOf(window.from_date) \in DOMAIN reports
                THEN reports[HourOf(window.from_date)] ELSE "none"
    IN  IF name = "none"
        THEN {Response(FALSE, 404, Text("message", 1, NoRoot)), Response(FALSE, 200, EmptyText)}
        ELSE {Response(FALSE, 200, Document(StoreDoc(name)))}

\* what it answers when it fails: no answer, an error, an error that starts
\* with 'NO REPORTS FOUND', a text that is no XML
Faulty ==
    {Response(TRUE, 0, NoneText),
     Response(FALSE, 500, Text("message", -1, NoRoot)),
     Response(FALSE, 404, Text("message", 0, NoRoot)),
     Response(FALSE, 200, Text("malformed", -1, NoRoot))}

-----------------------------------------------------------------------------
(* main *)

Step(at, res, fault) == [at |-> at, res |-> res, fault |-> fault]
Snapshot(ctl, s_rows, d_rows) == [control |-> ctl, stage |-> s_rows, fact |-> d_rows]

Abort_after_checkpoint(at, fault) ==
    /\ pc' = "stopped"
    /\ exitCode' = "1"
    /\ last' = Step(at, "raise", fault)
    /\ control' = write_control_file(dates)
    /\ xml' = NoneText
    /\ df' = <<>>

\* except Exception: log(ex); sys.exit(1); xml and df end with the process
Abort(at, fault) ==
    /\ pc' = "stopped"
    /\ exitCode' = "1"
    /\ last' = Step(at, "raise", fault)
    /\ control' = control
    /\ xml' = NoneText
    /\ df' = <<>>

AfterApi_unchecked(value) == "parse"

\* if xml: ... else: log('No reports found')
AfterApi(value) == IF Truthy(value) THEN "parse" ELSE "write_ctl"

AfterStep_without_merge(at) ==
    CASE at = "parse" -> "truncate"
      [] at = "truncate" -> "stage"
      [] at = "stage" -> "hash"
      [] at = "hash" -> "write_ctl"
      [] at = "merge" -> "write_ctl"

\* the order of the data pipeline
AfterStep(at) ==
    CASE at = "parse" -> "truncate"
      [] at = "truncate" -> "stage"
      [] at = "stage" -> "hash"
      [] at = "hash" -> "merge"
      [] at = "merge" -> "write_ctl"

\* dates = get_dates() and the test of the while loop; utcnow() returns the
\* clock, which has not gone back since it was last read
Loop(ctl, at) ==
    \E clock \in now..MaxNow :
        LET d == get_dates(ctl, clock)
        IN  /\ now' = clock
            /\ dates' = d
            /\ last' = Step(at, "ok", FALSE)
            /\ IF d.to_date # d.from_date
               THEN /\ pc' = "api"
                    /\ exitCode' = "none"
                    /\ pre' = Snapshot(ctl, stage, fact)
               ELSE /\ pc' = "stopped"
                    /\ exitCode' = "0"
                    /\ pre' = pre

Start ==
    /\ pc = "stopped"
    /\ calls' = <<>>
    /\ xml' = NoneText
    /\ df' = <<>>
    /\ IF control.valid
       THEN Loop(control, "start")
       ELSE /\ pc' = "stopped"
            /\ exitCode' = "1"
            /\ last' = Step("start", "raise", TRUE)
            /\ UNCHANGED <<now, dates, pre>>
    /\ UNCHANGED <<store, inst, sink, control, stage, fact, round>>

CallApi ==
    /\ pc = "api"
    /\ calls' = Append(calls, [from_date |-> dates.from_date, to_date |-> dates.to_date,
                               seen |-> now])
    /\ \E response \in Served(store, dates) \cup Faulty :
          LET r == call_blancco_api(response)
          IN  IF r.raised
              THEN Abort("api", TRUE)
              ELSE /\ xml' = r.value
                   /\ pc' = AfterApi(r.value)
                   /\ last' = Step("api", IF Truthy(r.value) THEN "ok" ELSE "none", FALSE)
                   /\ UNCHANGED <<control, exitCode, df>>
    /\ UNCHANGED <<now, store, inst, sink, dates, stage, fact, pre, round>>

\* etree.parse, reformat_xml and the loop over the reports
Parsed(text) ==
    IF text.kind # "xml" THEN [raised |-> TRUE, records |-> <<>>]
    ELSE LET reports == Named(reformat_xml(text.root).kids, w_report)
             results == [i \in 1..Len(reports) |-> parse_report(reports[i])]
         IN  IF \E i \in 1..Len(results) : results[i].raised
             THEN [raised |-> TRUE, records |-> <<>>]
             ELSE [raised |-> FALSE,
                   records |-> Concat([i \in 1..Len(results) |-> results[i].records])]

Parse ==
    /\ pc = "parse"
    /\ LET r == Parsed(xml)
       IN  IF r.raised
           THEN Abort("parse", xml.kind = "malformed")
           ELSE /\ df' = DataFrame(r.records)
                /\ pc' = AfterStep("parse")
                /\ last' = Step("parse", "ok", FALSE)
                /\ UNCHANGED <<control, exitCode, xml>>
    /\ UNCHANGED <<now, store, inst, sink, dates, stage, fact, calls, pre, round>>

TruncateOk ==
    /\ pc = "truncate"
    /\ stage' = <<>>
    /\ pc' = AfterStep("truncate")
    /\ last' = Step("truncate", "ok", FALSE)
    /\ UNCHANGED <<now, store, inst, sink, control, exitCode, dates, xml, df, fact, calls, pre, round>>

TruncateFails ==
    /\ pc = "truncate"
    /\ Abort("truncate", TRUE)
    /\ UNCHANGED <<now, store, inst, sink, dates, stage, fact, calls, pre, round>>

StageOk ==
    /\ pc = "stage"
    /\ ~write_to_stage(df).raised
    /\ stage' = stage \o write_to_stage(df).params
    /\ pc' = AfterStep("stage")
    /\ last' = Step("stage", "ok", FALSE)
    /\ UNCHANGED <<now, store, inst, sink, control, exitCode, dates, xml, df, fact, calls, pre, round>>

\* the KeyError of a frame without the document id column
StageRaises ==
    /\ pc = "stage"
    /\ write_to_stage(df).raised
    /\ Abort("stage", FALSE)
    /\ UNCHANGED <<now, store, inst, sink, dates, stage, fact, calls, pre, round>>

\* the database fails after some chunks are committed
StageFails ==
    /\ pc = "stage"
    /\ \E batch_size \in {1, DefaultBatchSize} :
       \E chunks \in 0..Len(write_to_stage(df).params) :
          /\ chunks = 0 \/ chunks * batch_size < Len(write_to_stage(df).params)
          /\ stage' = stage \o SubSeq(write_to_stage(df).params, 1,
                                      Committed(write_to_stage(df).params, batch_size, chunks))
    /\ Abort("stage", TRUE)
    /\ UNCHANGED <<now, store, inst, sink, dates, fact, calls, pre, round>>

HashOk ==
    /\ pc = "hash"
    /\ stage' = update_data_hash(stage)
    /\ pc' = AfterStep("hash")
    /\ last' = Step("hash", "ok", FALSE)
    /\ UNCHANGED <<now, store, inst, sink, control, exitCode, dates, xml, df, fact, calls, pre, round>>

HashFails ==
    /\ pc = "hash"
    /\ Abort("hash", TRUE)
    /\ UNCHANGED <<now, store, inst, sink, dates, stage, fact, calls, pre, round>>

MergeOk ==
    /\ pc = "merge"
    /\ fact' = fact (+) SetToBag(write_to_final(stage, BagToSet(fact)))
    /\ pc' = AfterStep("merge")
    /\ last' = Step("merge", "ok", FALSE)
    /\ UNCHANGED <<now, store, inst, sink, control, exitCode, dates, xml, df, stage, calls, pre, round>>

MergeFails ==
    /\ pc = "merge"
    /\ Abort("merge", TRUE)
    /\ UNCHANGED <<now, store, inst, sink, dates, stage, fact, calls, pre, round>>

\* write_control_file(dates); dates = get_dates()
WriteControlOk ==
    /\ pc = "write_ctl"
    /\ control' = write_control_file(dates)
    /\ Loop(control', "write_ctl")
    /\ xml' = IF pc' = "stopped" THEN NoneText ELSE xml
    /\ df' = IF pc' = "stopped" THEN <<>> ELSE df
    /\ UNCHANGED <<store, inst, sink, stage, fact, calls, round>>

\* open() fails and leaves the file, or json.dump fails and leaves it cut
WriteControlFails ==
    /\ pc = "write_ctl"
    /\ control' \in {control, Corrupt}
    /\ pc' = "stopped"
    /\ exitCode' = "1"
    /\ last' = Step("write_ctl", "raise", TRUE)
    /\ xml' = NoneText
    /\ df' = <<>>
    /\ UNCHANGED <<now, store, inst, sink, dates, stage, fact, calls, pre, round>>

\* the process is killed between two steps
Kill ==
    /\ pc # "stopped"
    /\ pc' = "stopped"
    /\ exitCode' = "killed"
    /\ last' = Step(pc, "kill", TRUE)
    /\ xml' = NoneText
    /\ df' = <<>>
    /\ UNCHANGED <<now, store, inst, sink, control, dates, stage, fact, calls, pre, round>>

Init ==
    /\ now = 0
    /\ store \in [Hours -> DocNames]
    /\ \E frac \in {0, 1} : control = ControlFile(DateText(0, 0), DateText(0, frac))
    /\ pc = "stopped"
    /\ exitCode = "none"
    /\ dates = Window(0, 0)
    /\ xml = NoneText
    /\ df = <<>>
    /\ stage = <<>>
    /\ fact = EmptyBag
    /\ last = Step("init", "ok", FALSE)
    /\ calls = <<>>
    /\ pre = Snapshot(control, <<>>, EmptyBag)
    /\ round = 0
    /\ inst = NoInst
    /\ sink = <<>>

Next ==
    \/ Start
    \/ CallApi
    \/ Parse
    \/ TruncateOk
    \/ TruncateFails
    \/ StageOk
    \/ StageRaises
    \/ StageFails
    \/ HashOk
    \/ HashFails
    \/ MergeOk
    \/ MergeFails
    \/ WriteControlOk
    \/ WriteControlFails
    \/ Kill

Spec == Init /\ [][Next]_vars

-----------------------------------------------------------------------------
(* The Load Reconciler, run again on the batch it has loaded *)

\* the records a batch is drawn from: with or without document id and
\* start time, in either state
LoadRecord(document_id, with_start, state) ==
    IF with_start
    THEN (k_document_id :> document_id) @@ (k_start_time :> t_1) @@ (k_state :> state)
    ELSE (k_document_id :> document_id) @@ (k_state :> state)

LoadRecords ==
    {LoadRecord(d, w, st) : d \in {t_a, None}, w \in BOOLEAN, st \in {t_ok, t_ko}}

SeqsUpTo(S, n) == UNION {[1..k -> S] : k \in 0..n}

\* the rows earlier loads can have left in the fact table
LoadedRows ==
    {r \in {update_data_hash(<<StagedRow(rec)>>)[1] : rec \in LoadRecords} :
        r[k_document_id] # <<>>}

InitLoad ==
    /\ now = 0
    /\ store = [h \in Hours |-> "none"]
    /\ control = ControlFile(DateText(0, 0), DateText(0, 0))
    /\ pc = "truncate"
    /\ exitCode = "none"
    /\ dates = Window(0, 0)
    /\ xml = NoneText
    /\ \E batch \in SeqsUpTo(LoadRecords, MaxBatch) : df = DataFrame(batch)
    /\ stage = <<>>
    /\ \E rows \in SUBSET LoadedRows : fact = SetToBag(rows)
    /\ last = Step("init", "ok", FALSE)
    /\ calls = <<>>
    /\ pre = Snapshot(control, <<>>, fact)
    /\ round = 0
    /\ inst = NoInst
    /\ sink = <<>>

\* the sequence has run to its end: run it again on the same batch
Again ==
    /\ pc = "write_ctl"
    /\ round < Reruns
    /\ round' = round + 1
    /\ pc' = "truncate"
    /\ pre' = Snapshot(control, stage, fact)
    /\ last' = Step("again", "ok", FALSE)
    /\ UNCHANGED <<now, store, inst, sink, control, exitCode, dates, xml, df, stage, fact, calls>>

NextLoad ==
    \/ TruncateOk
    \/ StageOk
    \/ StageRaises
    \/ HashOk
    \/ MergeOk
    \/ Again

SpecLoad == InitLoad /\ [][NextLoad]_vars

-----------------------------------------------------------------------------
(* parse_report on generated reports *)

\* a field a generated element does not have
Absent == <<"absent">>
t_usb == <<"U", "S", "B">>
t_sata == <<"S", "A", "T", "A">>
t_x == <<"x">>

\* the leaves of the fields that are there
Leaves(fields) ==
    LET there == SelectSeq(fields, LAMBDA f : f[2] # Absent)
    IN  [i \in 1..Len(there) |-> Leaf(there[i][1], there[i][2])]

DiskOptions ==
    [type : {Absent, t_usb, t_sata}, serial : {Absent, t_1}, vendor : {Absent, t_x}]
ErasureOptions == [type : {Absent, t_usb, t_sata}]

DiskElement(o) ==
    Node(w_disk, Leaves(<<<<w_type, o.type>>, <<w_serial, o.serial>>, <<w_vendor, o.vendor>>>>))
ErasureElement(o) ==
    Node(w_erasure, <<Leaf(w_start_time, t_1),
                      Node(w_target, Leaves(<<<<w_serial, t_1>>, <<w_type, o.type>>>>))>>)

GeneratedReport(erasures, disks) ==
    Node(w_report,
         <<Node(w_blancco_data,
                <<Node(w_description, <<Leaf(w_document_id, t_a)>>),
                  Node(w_blancco_hardware_report,
                       <<Node(w_system, <<Leaf(w_imei, t_1)>>),
                         Node(w_disks, [i \in 1..Len(disks) |-> DiskElement(disks[i])])>>),
                  Node(w_blancco_software_report, <<Leaf(w_type, t_x)>>),
                  Node(w_blancco_erasure_report,
                       <<Node(w_erasures,
                              [i \in 1..Len(erasures) |-> ErasureElement(erasures[i])])>>)>>),
           Node(w_user_data, <<Node(w_fields, <<Leaf(w_state, t_ok)>>)>>)>>)

InitReport ==
    /\ now = 0
    /\ store = [h \in Hours |-> "none"]
    /\ control = ControlFile(DateText(0, 0), DateText(0, 0))
    /\ pc = "parse_report"
    /\ exitCode = "none"
    /\ dates = Window(0, 0)
    /\ \E erasures \in SeqsUpTo(ErasureOptions, 2) :
       \E disks \in SeqsUpTo(DiskOptions, MaxDisks) :
          xml = Document(GeneratedReport(erasures, disks))
    /\ df = <<>>
    /\ stage = <<>>
    /\ fact = EmptyBag
    /\ last = Step("init", "ok", FALSE)
    /\ calls = <<>>
    /\ pre = Snapshot(control, <<>>, EmptyBag)
    /\ round = 0
    /\ inst = NoInst
    /\ sink = <<>>

ParseReport ==
    /\ pc = "parse_report"
    /\ pc' = "returned"
    /\ df' = parse_report(xml.root).records
    /\ last' = Step("parse_report", IF parse_report(xml.root).raised THEN "raise" ELSE "ok", FALSE)
    /\ UNCHANGED <<now, store, inst, sink, control, exitCode, dates, xml, stage, fact, calls, pre, round>>

NextReport == ParseReport

SpecReport == InitReport /\ [][NextReport]_vars

-----------------------------------------------------------------------------
(* Claims on the Window Cursor and the cycle of main (Spec) *)

LastCall == calls[Len(calls)]
CycleSteps == {"api", "parse", "truncate", "stage", "hash", "merge"}
GetDatesReturned == last.res = "ok" /\ last.at \in {"start", "write_ctl"}
CycleCompleted == last.res = "ok" /\ last.at = "write_ctl"

\* C1: for a persisted checkpoint T and the clock now that get_dates reads,
\* the window is (T, T) when now < T + 1h and (T, T + 1h) when now >= T + 1h;
\* after a cycle over (T, T + 1h) has completed, the checkpoint the next
\* get_dates reads is T + 1h.
C1_WindowComputation ==
    /\ GetDatesReturned =>
          LET T == Checkpoint(control)
          IN  dates = IF now < T + Hour THEN Window(T, T) ELSE Window(T, T + Hour)
    /\ CycleCompleted =>
          /\ Checkpoint(control) = LastCall.from_date + Hour
          /\ dates.from_date = LastCall.from_date + Hour

\* get_dates has read the clock at exactly T + 1h after a completed cycle,
\* and has returned a window of one hour
C1_Witness ==
    /\ CycleCompleted
    /\ now = Checkpoint(control) + Hour
    /\ dates.to_date = dates.from_date + Hour

\* C2: every window passed to the export API is one hour wide and ends no
\* later than the clock read when it was computed; each window of a run
\* starts where the one before it ended; a persisted checkpoint only grows.
C2_WindowSequence ==
    /\ [](/\ \A i \in 1..Len(calls) :
                /\ calls[i].to_date = calls[i].from_date + Hour
                /\ calls[i].to_date <= calls[i].seen
          /\ \A i \in 2..Len(calls) : calls[i].from_date = calls[i - 1].to_date)
    /\ [][(control.valid /\ control'.valid /\ control' # control)
             => Checkpoint(control') > Checkpoint(control)]_vars

\* a run has passed three windows to the API
C2_Witness == Len(calls) = 3 /\ calls[3].from_date = calls[2].to_date

\* C3: when a step of the cycle fails, the control file is the one the cycle
\* found, the process has exited with code 1, and the next run computes the
\* same window and enters the cycle with it.
C3_FailureKeepsCheckpoint ==
    /\ []((last.res = "raise" /\ last.at \in CycleSteps) =>
             /\ pc = "stopped"
             /\ exitCode = "1"
             /\ control = pre.control)
    /\ [][(last.res = "raise" /\ last.at \in CycleSteps /\ last' # last)
             => (dates' = dates /\ pc' = "api" /\ control' = control)]_vars

\* the merge has failed in a cycle that had rows to merge
C3_Witness ==
    /\ last.res = "raise"
    /\ last.at = "merge"
    /\ Len(stage) > 0
    /\ dates.to_date = dates.from_date + Hour

\* C4: when call_blancco_api returns no document, the next step of main is
\* the write of the control file, with the staging and the fact table as the
\* cycle found them, and that write moves the checkpoint to to_boundary.
C4_EmptyCycleAdvances ==
    /\ []((last.at = "api" /\ last.res = "none") =>
             /\ pc = "write_ctl"
             /\ stage = pre.stage
             /\ fact = pre.fact)
    /\ [][(last.at = "api" /\ last.res = "none" /\ last'.at = "write_ctl" /\ last'.res = "ok")
             => /\ Checkpoint(control') = dates.to_date
                /\ Checkpoint(control') = Checkpoint(control) + Hour
                /\ stage' = pre.stage
                /\ fact' = pre.fact]_vars

\* the checkpoint has moved past an hour without reports, with rows of an
\* earlier cycle still in the tables
C4_Witness ==
    /\ CycleCompleted
    /\ calls # <<>>
    /\ store[HourOf(LastCall.from_date)] = "none"
    /\ Checkpoint(control) = LastCall.to_date
    /\ Len(stage) > 0
    /\ fact # EmptyBag

\* C6: each ContentHash value occurs in at most one row of the fact table.
C6_HashOnce ==
    \A d1 \in BagToSet(fact) :
        /\ CopiesIn(d1, fact) = 1
        /\ \A d2 \in BagToSet(fact) : d1[w_hash_data] = d2[w_hash_data] => d1 = d2

\* the hashes of the cleansed records of a document of the store
WindowHashes(name) ==
    LET parsed == Parsed(Document(StoreDoc(name)))
        staged == write_to_stage(DataFrame(parsed.records))
    IN  IF name = "none" \/ parsed.raised \/ staged.raised THEN {}
        ELSE {hash_data(staged.params[i]) : i \in 1..Len(staged.params)}

FactHashes == {d[w_hash_data] : d \in BagToSet(fact)}

\* C7: whenever the checkpoint is past a window, the ContentHash of every
\* cleansed record of that window is in the fact table.
C7_NoLossOnAdvance ==
    control.valid =>
        \A h \in Hours :
            (h + 1) * Hour <= Checkpoint(control) => WindowHashes(store[h]) \subseteq FactHashes

\* the checkpoint is past two windows with records, after a run that was
\* killed or failed between the merge and the write of the checkpoint
C7_Witness ==
    /\ control.valid
    /\ Checkpoint(control) = 2 * Hour
    /\ store[0] = "full"
    /\ store[1] = "full"
    /\ last.at = "write_ctl"
    /\ last.res \in {"kill", "raise"}

\* C8: a run in which no external call has failed ends idle, with exit code
\* 0, after one-hour windows only, and with the checkpoint at the largest
\* T + k * 1h that does not exceed the clock.
C8_CatchUp ==
    (pc = "stopped" /\ exitCode \in {"0", "1"} /\ ~last.fault) =>
        /\ exitCode = "0"
        /\ dates.to_date = dates.from_date
        /\ control.valid
        /\ Checkpoint(control) <= now
        /\ now < Checkpoint(control) + Hour
        /\ \A i \in 1..Len(calls) : calls[i].to_date = calls[i].from_date + Hour

-----------------------------------------------------------------------------
(* Claims on the Load Reconciler (SpecLoad) *)

\* C5: once the sequence truncate_stage, write_to_stage, update_data_hash,
\* write_to_final has run on a batch, running it again on the same batch
\* leaves the fact table as it is.
C5_RerunInsertsNothing == round >= 1 => fact = pre.fact

\* the second run has reached its end with rows staged, after a first run
\* that inserted rows
C5_Witness ==
    /\ round = 1
    /\ pc = "write_ctl"
    /\ Len(stage) = 2
    /\ BagCardinality(fact) >= 2

-----------------------------------------------------------------------------
(* Claims on the disk join (SpecReport) *)

DiskKeys(rec) == {k \in DOMAIN rec : StartsWith(k, w_disk \o Dot)}
DiskPart(rec) == [k \in DiskKeys(rec) |-> rec[k]]
Returned == pc = "returned" /\ last.res = "ok"
\* the disks whose type is the target type of the erasure
Matching(e, disks) ==
    {j \in 1..Len(disks) :
        k_target_type \in DOMAIN e /\ disks[j][k_disk_type] = e[k_target_type]}

\* C9: with no disk the record has no disk.* key; with one disk it has all
\* the fields of that disk; with several disks its disk.* fields are those of
\* the disks whose type is the target type of the erasure, and none when the
\* erasure has no target type.
C9_DiskJoinRule ==
    Returned =>
        LET s == Sections(xml.root)
        IN  /\ Len(df) = Len(s.erasures)
            /\ \A i \in 1..Len(df) :
                 /\ Len(s.disks) = 0 => DiskKeys(df[i]) = {}
                 /\ Len(s.disks) = 1 => DiskPart(df[i]) = s.disks[1]
                 /\ Len(s.disks) > 1 =>
                      LET M == Matching(s.erasures[i], s.disks)
                      IN  /\ DiskKeys(df[i]) = UNION {DOMAIN s.disks[j] : j \in M}
                          /\ \A k \in DiskKeys(df[i]) :
                                \E j \in M : k \in DOMAIN s.disks[j]
                                             /\ df[i][k] = s.disks[j][k]
                          /\ k_target_type \notin DOMAIN s.erasures[i] => DiskKeys(df[i]) = {}

\* of two disks of different types, the record of an erasure has the
\* fields of the one of its target type
C9_Witness ==
    /\ Returned
    /\ LET s == Sections(xml.root)
       IN  /\ Len(s.disks) = 2
           /\ Len(df) = 2
           /\ Cardinality(Matching(s.erasures[1], s.disks)) = 1
           /\ DiskKeys(df[1]) # {}
           /\ k_target_type \notin DOMAIN s.erasures[2]

\* C10: the disk.* fields of an assembled record are those of one single
\* disk entry of the report, or there are none.
C10_OneDisk ==
    Returned =>
        LET s == Sections(xml.root)
        IN  \A i \in 1..Len(df) :
                \/ DiskKeys(df[i]) = {}
                \/ \E j \in 1..Len(s.disks) : DiskPart(df[i]) = s.disks[j]

-----------------------------------------------------------------------------
(* Claims on the records of parse_report (SpecReport) *)

KeysOf(rec, word) == {k \in DOMAIN rec : StartsWith(k, word \o Dot)}
Part(rec, word) == [k \in KeysOf(rec, word) |-> rec[k]]
\* the erasure-event children of a report, in document order
ErasureEvents(root) ==
    Star(Child(Child(Child(<<root>>, w_blancco_data), w_blancco_erasure_report), w_erasures))

\* C11: parse_report returns one record per erasure-event child of the
\* report, in document order, and none when there is no such child; every
\* record of the report carries the same description.*, software.*,
\* user_data.* and hardware.* fields, those of the report.
C11_OneRecordPerErasure ==
    Returned =>
        LET s == Sections(xml.root)
            events == ErasureEvents(xml.root)
        IN  /\ Len(df) = Len(events)
            /\ \A i \in 1..Len(df) :
                 /\ Part(df[i], w_erasure) = flatten(events[i].kids, w_erasure)
                 /\ Part(df[i], w_description) = s.description
                 /\ Part(df[i], w_hardware) = s.hardware
                 /\ Part(df[i], w_software) = s.software
                 /\ Part(df[i], w_user_data) = s.user_data
                 /\ \A w \in {w_description, w_hardware, w_software, w_user_data} :
                       Part(df[i], w) = Part(df[1], w)

\* a report with two erasure events of different target types has given two
\* records in their order, with the fields of the report
C11_Witness ==
    /\ Returned
    /\ Len(df) = 2
    /\ k_target_type \in DOMAIN df[1]
    /\ df[1][k_target_type] = t_usb
    /\ k_target_type \notin DOMAIN df[2]
    /\ KeysOf(df[1], w_user_data) # {}
    /\ KeysOf(df[1], w_description) # {}

-----------------------------------------------------------------------------
(* flatten on generated children of one node *)

\* the most children the generated node has
MaxKids == 3

t_2 == <<"2">>
t_A == <<"A">>
t_X == <<"X">>
t_a_x == <<"a", ".", "x">>

\* leaves and branches whose keys can collide: tags that differ in case
\* only, and a leaf whose tag is the dotted path of a branch's leaf
KidLeaves == {Leaf(tag, text) : tag \in {t_a, t_a_x, t_x}, text \in {t_1, t_2}}
KidBranches ==
    {Node(tag, <<Leaf(t_x, text)>>) : tag \in {t_a, t_A}, text \in {t_1, t_2}}
        \cup {Node(t_a, <<Leaf(t_x, t_1), Leaf(t_X, t_2)>>),
              Node(t_a, <<Node(t_x, <<Leaf(t_x, t_1)>>), Leaf(t_x, t_2)>>)}
KidOptions == KidLeaves \cup KidBranches

\* the state of the specifications that apply one function to generated
\* input: nothing of main has run
Quiet ==
    /\ now = 0
    /\ store = [h \in Hours |-> "none"]
    /\ control = ControlFile(DateText(0, 0), DateText(0, 0))
    /\ exitCode = "none"
    /\ dates = Window(0, 0)
    /\ stage = <<>>
    /\ fact = EmptyBag
    /\ last = Step("init", "ok", FALSE)
    /\ calls = <<>>
    /\ pre = Snapshot(control, <<>>, EmptyBag)
    /\ round = 0
    /\ inst = NoInst
    /\ sink = <<>>

InitFlatten ==
    /\ Quiet
    /\ pc = "flatten"
    /\ \E kids \in SeqsUpTo(KidOptions, MaxKids) : xml = Document(Node(w_description, kids))
    /\ df = <<>>

\* flatten(xml_data.xpath('./blancco_data/description/*'), 'description')
Flatten ==
    /\ pc = "flatten"
    /\ pc' = "returned"
    /\ df' = <<flatten(xml.root.kids, w_description)>>
    /\ last' = Step("flatten", "ok", FALSE)
    /\ UNCHANGED <<now, store, inst, sink, control, exitCode, dates, xml, stage, fact, calls, pre, round>>

NextFlatten == Flatten

SpecFlatten == InitFlatten /\ [][NextFlatten]_vars

-----------------------------------------------------------------------------
(* Claims on flatten (SpecFlatten) *)

Flattened == pc = "returned" /\ last.at = "flatten"
\* the key a leaf child writes
LeafKey(element, prefix) == lower(prefix \o Dot \o element.tag)
IsLeaf(element) == Len(element.kids) = 0
\* the children that are leaves and write key k, and the branches whose
\* result has key k
LeavesWriting(kids, prefix, k) ==
    {i \in 1..Len(kids) : IsLeaf(kids[i]) /\ LeafKey(kids[i], prefix) = k}
BranchResult(element, prefix) == flatten(element.kids, prefix \o Dot \o element.tag)
BranchesGiving(kids, prefix, k) ==
    {i \in 1..Len(kids) : ~IsLeaf(kids[i]) /\ k \in DOMAIN BranchResult(kids[i], prefix)}
Least(S) == CHOOSE i \in S : \A j \in S : i <= j
Greatest(S) == CHOOSE i \in S : \A j \in S : i >= j

C20_LeafLastWins ==
    Flattened =>
        LET kids == xml.root.kids
            p == w_description
        IN  \A k \in DOMAIN df[1] :
                (LeavesWriting(kids, p, k) # {}) =>
                    df[1][k] = kids[Greatest(LeavesWriting(kids, p, k))].text

\* a leaf has written the key an earlier branch produced, and a branch after
\* it produces the key again
C20_Witness ==
    /\ Flattened
    /\ LET kids == xml.root.kids
           k == w_description \o Dot \o t_a \o Dot \o t_x
       IN  /\ Len(kids) = 3
           /\ kids[1] = Node(t_a, <<Leaf(t_x, t_1)>>)
           /\ kids[2] = Leaf(t_a_x, t_2)
           /\ kids[3] = Node(t_A, <<Leaf(t_x, t_1)>>)
           /\ df[1][k] = t_2

-----------------------------------------------------------------------------
(* The Batch Cleanser of both pipelines on generated batches *)

\* a text one character longer than the limit, ending in c
Long(c) == [i \in 1..TruncLimit |-> "z"] \o c

\* clean_data of the file-export pipeline, as its caller sees it: the frame
\* loses its duplicates in place; the copy without null document ids, and
\* its truncation, are bound to the local name and end with the call
clean_data(frame) ==
    IF k_document_id \notin Columns(frame) THEN [raised |-> TRUE, df |-> frame]
    ELSE [raised |-> FALSE, df |-> drop_duplicates(frame)]

CleanRecords ==
    {(k_document_id :> d) @@ (k_comments :> c) :
        d \in {t_a, None}, c \in {None, t_1, Long(t_1), Long(t_2)}}

\* a batch is cleansed, staged by the DB pipeline, or exported by the
\* file-export pipeline
InitCleanse ==
    /\ Quiet
    /\ pc \in {"clean", "stage", "file"}
    /\ xml = NoneText
    /\ \E batch \in SeqsUpTo(CleanRecords, MaxBatch) : df = DataFrame(batch)

\* lines 145-155 of write_to_stage, applied to the frame and again to what
\* they gave
Cleanse ==
    /\ pc = "clean"
    /\ round <= Reruns
    /\ k_document_id \in Columns(df)
    /\ df' = Cleansed(df)
    /\ round' = round + 1
    /\ last' = Step("clean", "ok", FALSE)
    /\ UNCHANGED <<now, store, inst, sink, control, pc, exitCode, dates, xml, stage, fact,
                   calls, pre>>

CleanseRaises ==
    /\ pc = "clean"
    /\ k_document_id \notin Columns(df)
    /\ pc' = "stopped"
    /\ last' = Step("clean", "raise", FALSE)
    /\ UNCHANGED <<now, store, inst, sink, control, exitCode, dates, xml, df, stage, fact,
                   calls, pre, round>>

\* clean_data(df), then write_data_files or export_raw_data on df
Export ==
    /\ pc = "file"
    /\ ~clean_data(df).raised
    /\ df' = clean_data(df).df
    /\ sink' = sink \o df'
    /\ pc' = "returned"
    /\ last' = Step("file", "ok", FALSE)
    /\ UNCHANGED <<now, store, inst, control, exitCode, dates, xml, stage, fact, calls, pre,
                   round>>

ExportRaises ==
    /\ pc = "file"
    /\ clean_data(df).raised
    /\ pc' = "stopped"
    /\ last' = Step("file", "raise", FALSE)
    /\ UNCHANGED <<now, store, inst, sink, control, exitCode, dates, xml, df, stage, fact,
                   calls, pre, round>>

NextCleanse ==
    \/ Cleanse
    \/ CleanseRaises
    \/ StageOk
    \/ StageRaises
    \/ Export
    \/ ExportRaises

SpecCleanse == InitCleanse /\ [][NextCleanse]_vars

-----------------------------------------------------------------------------
(* Claims on the Batch Cleanser (SpecCleanse) *)

\* C13: applying the three steps of the cleanser to what they gave changes
\* nothing.
C13_CleansingIdempotent ==
    [][(last.at = "clean" /\ round >= 1 /\ round' = round + 1) => df' = df]_vars

RowCleansed(row) ==
    /\ row[k_document_id] # None
    /\ \A c \in truncate_columns \cap DOMAIN row :
          row[c] = None \/ Len(row[c]) <= TruncLimit

\* the rows the DB pipeline has inserted into the staging table
C14_StagedRowsCleansed == \A i \in 1..Len(stage) : RowCleansed(stage[i])

\* C14: every row inserted into the staging table, and every row the
\* file-export pipeline passes to its writer, has a document id and has its
\* listed fields within the limit.
C14_SinkRowsCleansed ==
    /\ C14_StagedRowsCleansed
    /\ \A i \in 1..Len(sink) : RowCleansed(sink[i])

-----------------------------------------------------------------------------
(* reformat_xml on generated entry nodes *)

\* the longest name attribute generated
MaxName == 3

NameLetters == {"1", "2", "a", " ", "."}
Names == SeqsUpTo(NameLetters, MaxName)

InitTag ==
    /\ Quiet
    /\ pc = "reformat"
    /\ \E name \in Names : \E tag \in {w_entry, w_entries} :
          xml = Document(Node(w_root, <<El(tag, ("name" :> name) @@ ("type" :> t_string),
                                           t_1, <<>>),
                                        RawEntry(t_a, t_2)>>))
    /\ df = <<>>

\* xml_data = reformat_xml(xml_data)
Reformat ==
    /\ pc = "reformat"
    /\ pc' = "returned"
    /\ xml' = Document(reformat_xml(xml.root))
    /\ last' = Step("reformat", "ok", FALSE)
    /\ UNCHANGED <<now, store, inst, sink, control, exitCode, dates, df, stage, fact, calls,
                   pre, round>>

NextTag == Reformat

SpecTag == InitTag /\ [][NextTag]_vars

-----------------------------------------------------------------------------
(* Claims on the Tag Normalizer (SpecTag) *)

Sanitized(name) == Replace(Replace(name, " ", "_"), ".", "_")
DigitLed(element) ==
    /\ element.tag \in {w_entry, w_entries}
    /\ "name" \in DOMAIN element.attrib
    /\ element.attrib["name"] # <<>>
    /\ Sanitized(element.attrib["name"])[1] \in Digits

\* C16: for an entry or entries node whose sanitized name starts with a
\* digit, the rewritten tag does not start with a digit, and the node gets
\* that tag and loses its name attribute.
C16_DigitRuleGivesValidTag ==
    [][(pc = "reformat" /\ pc' = "returned") =>
         \A i \in 1..Len(xml.root.kids) :
            DigitLed(xml.root.kids[i]) =>
               LET tag_name == TagName(xml.root.kids[i].attrib["name"])
                   after == xml'.root.kids[i]
               IN  /\ tag_name[1] \notin Digits
                   /\ after.tag = tag_name
                   /\ "name" \notin DOMAIN after.attrib]_vars

-----------------------------------------------------------------------------
(* parse_report on reports whose disks share fields with different values *)

SerialDisks == [type : {t_usb, t_sata}, serial : {t_1, t_2}, vendor : {Absent}]

InitOverlay ==
    /\ Quiet
    /\ pc = "parse_report"
    /\ \E erasure \in ErasureOptions :
       \E disks \in SeqsUpTo(SerialDisks, MaxDisks) :
          xml = Document(GeneratedReport(<<erasure>>, disks))
    /\ df = <<>>

SpecOverlay == InitOverlay /\ [][NextReport]_vars

-----------------------------------------------------------------------------
(* Claims on the overlays of parse_report (SpecOverlay) *)

\* the dicts parse_report updates an erasure record with, in its order
Overlays(e, s) ==
    <<s.description, s.hardware>>
        \o (IF Len(s.disks) = 1 THEN s.disks
            ELSE SelectSeq(s.disks,
                           LAMBDA disk : k_target_type \in DOMAIN e
                                         /\ disk[k_disk_type] = e[k_target_type]))
        \o <<s.software, s.user_data>>

\* C15: a key of an assembled record has the value of the first source, in
\* the order erasure, description, hardware, matched disk, software,
\* user-fields, that sets it; a later overlay adds new keys only.
C15_EarlierSourceKept ==
    Returned =>
        LET s == Sections(xml.root)
        IN  \A i \in 1..Len(df) :
               LET sources == <<s.erasures[i]>> \o Overlays(s.erasures[i], s)
               IN  \A k \in DOMAIN df[i] :
                      LET first == Least({j \in 1..Len(sources) : k \in DOMAIN sources[j]})
                      IN  df[i][k] = sources[first][k]

-----------------------------------------------------------------------------
(* The Load Reconciler on batches whose identity fields are partly empty *)

\* records of one document with or without a start time and an end time
HashRecords ==
    {(k_document_id :> t_a) @@ (k_start_time :> b) @@ (k_end_time :> e) @@ (k_state :> t_ok) :
        b \in {None, t_1}, e \in {None, t_1}}

HashedRows == {update_data_hash(<<StagedRow(rec)>>)[1] : rec \in HashRecords}

InitHash ==
    /\ now = 0
    /\ store = [h \in Hours |-> "none"]
    /\ control = ControlFile(DateText(0, 0), DateText(0, 0))
    /\ pc = "truncate"
    /\ exitCode = "none"
    /\ dates = Window(0, 0)
    /\ xml = NoneText
    /\ \E batch \in SeqsUpTo(HashRecords, MaxBatch) : df = DataFrame(batch)
    /\ stage = <<>>
    /\ \E rows \in SUBSET HashedRows : fact = SetToBag(rows)
    /\ last = Step("init", "ok", FALSE)
    /\ calls = <<>>
    /\ pre = Snapshot(control, <<>>, fact)
    /\ round = 0
    /\ inst = NoInst
    /\ sink = <<>>

SpecHash == InitHash /\ [][NextLoad]_vars

-----------------------------------------------------------------------------
(* Claims on the content hash (SpecHash) *)

\* the identity fields of a row, null taken as the empty text
Identity(row) ==
    [c \in {k_document_id, k_start_time, k_end_time, k_standard_name, k_timestamp,
            k_target_serial, k_imei, k_imei_two, k_meid, k_meid_fourteen} |->
        IF row[c] = None THEN <<>> ELSE row[c]]

\* C19: staged rows with the same hash have the same identity fields, and a
\* merge inserts every staged row whose identity fields differ from those of
\* every row the fact table had.
C19_HashSeparatesIdentities ==
    /\ (last.at \in {"hash", "merge"} /\ last.res = "ok") =>
          \A i, j \in 1..Len(stage) :
             stage[i][w_hash_data] = stage[j][w_hash_data]
                => Identity(stage[i]) = Identity(stage[j])
    /\ (last.at = "merge" /\ last.res = "ok" /\ round = 0) =>
          \A i \in 1..Len(stage) :
             (\A d \in BagToSet(pre.fact) : Identity(d) # Identity(stage[i]))
                => stage[i] \in BagToSet(fact)

-----------------------------------------------------------------------------
(* main with the API, the database and the control file all available *)

\* the API call when the API works
CallApiServed ==
    /\ pc = "api"
    /\ calls' = Append(calls, [from_date |-> dates.from_date, to_date |-> dates.to_date,
                               seen |-> now])
    /\ \E response \in Served(store, dates) :
          LET r == call_blancco_api(response)
          IN  IF r.raised
              THEN Abort("api", TRUE)
              ELSE /\ xml' = r.value
                   /\ pc' = AfterApi(r.value)
                   /\ last' = Step("api", IF Truthy(r.value) THEN "ok" ELSE "none", FALSE)
                   /\ UNCHANGED <<control, exitCode, df>>
    /\ UNCHANGED <<now, store, inst, sink, dates, stage, fact, pre, round>>

NextLive ==
    \/ Start
    \/ CallApiServed
    \/ Parse
    \/ TruncateOk
    \/ StageOk
    \/ StageRaises
    \/ HashOk
    \/ MergeOk
    \/ WriteControlOk

\* the step of a running process to whichever place of main comes next
Advance ==
    /\ pc # "stopped"
    /\ pc' \in {"api", "parse", "truncate", "stage", "hash", "merge", "write_ctl",
                "stopped"} \ {pc}

\* a process that runs takes its next step, and main is started again after
\* it has ended
SpecLive == Init /\ [][NextLive]_vars /\ WF_vars(Start) /\ WF_pc(Advance)

-----------------------------------------------------------------------------
(* Claims on progress (SpecLive) *)

\* C18: from a checkpoint T with the clock at T + 1h or later, and nothing
\* failing, the checkpoint eventually is past T, whatever document the API
\* has for the window.
C18_CheckpointAdvances ==
    \A T \in 0..MaxNow :
        (control.valid /\ Checkpoint(control) = T /\ now >= T + Hour)
            ~> (control.valid /\ Checkpoint(control) > T)

\* the same when no hour of the store holds a document without erasure events
C18_AdvancesOnRecords ==
    (\A h \in Hours : store[h] # "bare") => C18_CheckpointAdvances

-----------------------------------------------------------------------------
(* Two instances of main on one database and one control file, nothing
   failing *)

Others == <<store, sink, pc, exitCode, dates, xml, df, calls, pre, round>>

\* an instance that has ended, by sys.exit or by the end of main
Ended(p) == Instance("stopped", inst[p].dates, NoneText, <<>>, inst[p].wiped)

\* dates = get_dates() of instance p and the test of its while loop
LoopTwo(p, ctl, text, frame, at) ==
    \E clock \in now..MaxNow :
        LET d == get_dates(ctl, clock)
        IN  /\ now' = clock
            /\ last' = Step(at, "ok", FALSE)
            /\ inst' = [inst EXCEPT ![p] =
                          IF d.to_date # d.from_date
                          THEN Instance("api", d, text, frame, inst[p].wiped)
                          ELSE Instance("stopped", d, NoneText, <<>>, inst[p].wiped)]

StartTwo(p) ==
    /\ inst[p].pc = "stopped"
    /\ control.valid
    /\ LoopTwo(p, control, NoneText, <<>>, "start")
    /\ UNCHANGED <<control, stage, fact>>
    /\ UNCHANGED Others

CallApiTwo(p) ==
    /\ inst[p].pc = "api"
    /\ \E response \in Served(store, inst[p].dates) :
          LET r == call_blancco_api(response)
          IN  IF r.raised
              THEN /\ inst' = [inst EXCEPT ![p] = Ended(p)]
                   /\ last' = Step("api", "raise", FALSE)
              ELSE /\ inst' = [inst EXCEPT ![p].xml = r.value, ![p].pc = AfterApi(r.value)]
                   /\ last' = Step("api", IF Truthy(r.value) THEN "ok" ELSE "none", FALSE)
    /\ UNCHANGED <<now, control, stage, fact>>
    /\ UNCHANGED Others

ParseTwo(p) ==
    /\ inst[p].pc = "parse"
    /\ LET r == Parsed(inst[p].xml)
       IN  IF r.raised
           THEN /\ inst' = [inst EXCEPT ![p] = Ended(p)]
                /\ last' = Step("parse", "raise", FALSE)
           ELSE /\ inst' = [inst EXCEPT ![p].df = DataFrame(r.records),
                                        ![p].pc = AfterStep("parse")]
                /\ last' = Step("parse", "ok", FALSE)
    /\ UNCHANGED <<now, control, stage, fact>>
    /\ UNCHANGED Others

\* the instances other than p whose staged rows are in the table, waiting
\* for their update_data_hash or their write_to_final
Waiting(p) ==
    {q \in Procs \ {p} : /\ inst[q].pc \in {"hash", "merge"}
                         /\ write_to_stage(inst[q].df).params # <<>>}

\* truncate_stage of instance p: TRUNCATE TABLE clears the rows of every
\* instance
TruncateTwo(p) ==
    /\ inst[p].pc = "truncate"
    /\ stage' = <<>>
    /\ inst' = [q \in Procs |->
                  IF q = p
                  THEN [inst[q] EXCEPT !.pc = AfterStep("truncate"), !.wiped = FALSE]
                  ELSE IF q \in Waiting(p) THEN [inst[q] EXCEPT !.wiped = TRUE]
                  ELSE inst[q]]
    /\ last' = Step("truncate", "ok", FALSE)
    /\ UNCHANGED <<now, control, fact>>
    /\ UNCHANGED Others

StageTwo(p) ==
    /\ inst[p].pc = "stage"
    /\ IF write_to_stage(inst[p].df).raised
       THEN /\ inst' = [inst EXCEPT ![p] = Ended(p)]
            /\ last' = Step("stage", "raise", FALSE)
            /\ stage' = stage
       ELSE /\ stage' = stage \o write_to_stage(inst[p].df).params
            /\ inst' = [inst EXCEPT ![p].pc = AfterStep("stage")]
            /\ last' = Step("stage", "ok", FALSE)
    /\ UNCHANGED <<now, control, fact>>
    /\ UNCHANGED Others

HashTwo(p) ==
    /\ inst[p].pc = "hash"
    /\ stage' = update_data_hash(stage)
    /\ inst' = [inst EXCEPT ![p].pc = AfterStep("hash")]
    /\ last' = Step("hash", "ok", FALSE)
    /\ UNCHANGED <<now, control, fact>>
    /\ UNCHANGED Others

MergeTwo(p) ==
    /\ inst[p].pc = "merge"
    /\ fact' = fact (+) SetToBag(write_to_final(stage, BagToSet(fact)))
    /\ inst' = [inst EXCEPT ![p].pc = AfterStep("merge")]
    /\ last' = Step("merge", "ok", FALSE)
    /\ UNCHANGED <<now, control, stage>>
    /\ UNCHANGED Others

WriteControlTwo(p) ==
    /\ inst[p].pc = "write_ctl"
    /\ control' = write_control_file(inst[p].dates)
    /\ LoopTwo(p, control', inst[p].xml, inst[p].df, "write_ctl")
    /\ UNCHANGED <<stage, fact>>
    /\ UNCHANGED Others

NextTwo ==
    \E p \in Procs :
        \/ StartTwo(p)
        \/ CallApiTwo(p)
        \/ ParseTwo(p)
        \/ TruncateTwo(p)
        \/ StageTwo(p)
        \/ HashTwo(p)
        \/ MergeTwo(p)
        \/ WriteControlTwo(p)

\* the clock is at the end of the hours of the store, each of which but the
\* last has reports, and nothing is loaded yet
InitTwo ==
    /\ now = MaxNow
    /\ store \in {s \in [Hours -> DocNames] : \A h \in Hours : h < MaxHours - 1 => s[h] = "full"}
    /\ control = ControlFile(DateText(0, 0), DateText(0, 0))
    /\ pc = "stopped"
    /\ exitCode = "none"
    /\ dates = Window(0, 0)
    /\ xml = NoneText
    /\ df = <<>>
    /\ stage = <<>>
    /\ fact = EmptyBag
    /\ last = Step("init", "ok", FALSE)
    /\ calls = <<>>
    /\ pre = Snapshot(control, <<>>, EmptyBag)
    /\ round = 0
    /\ inst = NoInst
    /\ sink = <<>>

SpecTwo == InitTwo /\ [][NextTwo]_vars

-----------------------------------------------------------------------------
(* Claims on instances that run side by side (SpecTwo) *)

\* the checkpoint is past hour h and a record of that hour is not in the
\* fact table
LostAt(h) ==
    /\ control.valid
    /\ (h + 1) * Hour <= Checkpoint(control)
    /\ ~(WindowHashes(store[h]) \subseteq FactHashes)

\* the hashes of the rows write_to_stage makes of a frame
FrameHashes(frame) ==
    LET staged == write_to_stage(frame)
    IN  IF staged.raised THEN {}
        ELSE {hash_data(staged.params[i]) : i \in 1..Len(staged.params)}

\* C17: with two instances on one staging table and one control file, an
\* instance writes the checkpoint of a window with a record of its frame
\* missing from the fact table only if the staging-clear of the other has
\* removed the rows it had staged before its merge; and such a state, with
\* the checkpoint past a window whose records are missing, is reached.
C17_LossOnlyAfterWipe ==
    [][\A p \in Procs :
          (/\ inst[p].pc = "write_ctl"
           /\ inst'[p].pc # "write_ctl"
           /\ Truthy(inst[p].xml)
           /\ ~(FrameHashes(inst[p].df) \subseteq FactHashes))
             => inst[p].wiped]_vars

\* an instance whose staged rows were cleared has merged and has written the
\* checkpoint of its window, whose records are not in the fact table
C17_Witness ==
    \E p \in Procs : \E h \in Hours :
        /\ inst[p].wiped
        /\ LostAt(h)
        /\ last = Step("write_ctl", "ok", FALSE)
        /\ Checkpoint(control) = (h + 1) * Hour
        /\ inst[p].dates.from_date = (h + 1) * Hour

-----------------------------------------------------------------------------
(* main of the file-export pipeline and its control file.  control is the
   content of control.json and dates is executeParms, the dict get_parms
   returned. *)

\* the keys get_parms reads from the JSON object of control.json
FileKeys ==
    {"blancco_url", "blancco_username", "blancco_password", "results_path",
     "report_date", "report_location", "report_place", "use_pervacio_schema"}

\* control.json holding a JSON object; obj maps its keys to their values
ParmsFile(obj) == [valid |-> TRUE, obj |-> obj]
\* control.json cut short: open(..., 'w') has emptied it and json.dump has
\* not completed
CutFile == [valid |-> FALSE, obj |-> <<>>]

\* get_parms: json.load, the eight subscripts of control, strptime on the
\* first 19 characters of the report date, and the dict it returns, in which
\* the value of 'use_pervacio_schema' is under 'old_format'
get_parms(ctl) ==
    IF ~ctl.valid \/ ~(FileKeys \subseteq DOMAIN ctl.obj)
    THEN [raised |-> TRUE, value |-> <<>>]
    ELSE [raised |-> FALSE,
          value |-> [blancco_url |-> ctl.obj.blancco_url,
                     blancco_username |-> ctl.obj.blancco_username,
                     blancco_password |-> ctl.obj.blancco_password,
                     results_path |-> ctl.obj.results_path,
                     report_date |-> strptime19(ctl.obj.report_date),
                     report_location |-> ctl.obj.report_location,
                     report_place |-> ctl.obj.report_place,
                     old_format |-> ctl.obj.use_pervacio_schema]]

\* json.dump(executeParms, file, indent=4, cls=DateTimeEncoder): the keys of
\* the dict as they are, the datetime as its isoformat(sep=' ')
write_control_file_export(executeParms) ==
    ParmsFile([k \in DOMAIN executeParms |->
                  IF k = "report_date" THEN isoformat(executeParms[k])
                  ELSE executeParms[k]])

\* the control files an operator provides: every key, a report date with or
\* without a fraction of a second, either schema
ProvidedFiles ==
    {ParmsFile([blancco_url |-> "url", blancco_username |-> "user",
                blancco_password |-> "password", results_path |-> "path",
                report_date |-> DateText(t, frac), report_location |-> loc,
                report_place |-> "place", use_pervacio_schema |-> flag]) :
        t \in {0, Hour}, frac \in {0, 1}, loc \in {"east", "west"},
        flag \in {"true", "false"}}

\* what the API can answer when it works: reports, reports without
\* erasures, or 'NO REPORTS FOUND'
ExportAnswers == UNION {Served([h \in Hours |-> name], Window(0, 0)) : name \in DocNames}

InitExport ==
    /\ now = 0
    /\ store = [h \in Hours |-> "none"]
    /\ control \in ProvidedFiles
    /\ pc = "stopped"
    /\ exitCode = "none"
    /\ dates = <<>>
    /\ xml = NoneText
    /\ df = <<>>
    /\ stage = <<>>
    /\ fact = EmptyBag
    /\ last = Step("init", "ok", FALSE)
    /\ calls = <<>>
    /\ pre = Snapshot(control, <<>>, EmptyBag)
    /\ round = 0
    /\ inst = NoInst
    /\ sink = <<>>

Rest == <<now, store, inst, stage, fact, calls, pre, round>>

\* except Exception: log(ex); sys.exit(1)
AbortExport(at, fault) ==
    /\ pc' = "stopped"
    /\ exitCode' = "1"
    /\ last' = Step(at, "raise", fault)
    /\ xml' = NoneText
    /\ df' = <<>>

\* executeParms = get_parms() at the start of main
StartExport ==
    /\ pc = "stopped"
    /\ sink' = <<>>
    /\ control' = control
    /\ IF get_parms(control).raised
       THEN /\ AbortExport("start", FALSE)
            /\ dates' = <<>>
       ELSE /\ dates' = get_parms(control).value
            /\ pc' = "api"
            /\ exitCode' = "none"
            /\ last' = Step("start", "ok", FALSE)
            /\ xml' = NoneText
            /\ df' = <<>>
    /\ UNCHANGED Rest

CallApiExport ==
    /\ pc = "api"
    /\ \E response \in ExportAnswers \cup Faulty :
          LET r == call_blancco_api(response)
          IN  IF r.raised
              THEN AbortExport("api", TRUE)
              ELSE /\ xml' = r.value
                   /\ pc' = IF Truthy(r.value) THEN "parse" ELSE "write_ctl"
                   /\ last' = Step("api", IF Truthy(r.value) THEN "ok" ELSE "none", FALSE)
                   /\ UNCHANGED <<exitCode, df>>
    /\ UNCHANGED <<control, dates, sink>>
    /\ UNCHANGED Rest

ParseExport ==
    /\ pc = "parse"
    /\ LET r == Parsed(xml)
       IN  IF r.raised
           THEN AbortExport("parse", xml.kind = "malformed")
           ELSE /\ df' = DataFrame(r.records)
                /\ pc' = "file"
                /\ last' = Step("parse", "ok", FALSE)
                /\ UNCHANGED <<exitCode, xml>>
    /\ UNCHANGED <<control, dates, sink>>
    /\ UNCHANGED Rest

\* clean_data(df), then write_data_files or export_raw_data on df
WriteFiles ==
    /\ pc = "file"
    /\ IF clean_data(df).raised
       THEN /\ AbortExport("file", FALSE)
            /\ sink' = sink
       ELSE /\ df' = clean_data(df).df
            /\ sink' = sink \o df'
            /\ pc' = "write_ctl"
            /\ last' = Step("file", "ok", FALSE)
            /\ UNCHANGED <<exitCode, xml>>
    /\ UNCHANGED <<control, dates>>
    /\ UNCHANGED Rest

\* the writer raises: a column it reads is not in the frame, or the file
\* cannot be written
WriteFilesFails ==
    /\ pc = "file"
    /\ ~clean_data(df).raised
    /\ AbortExport("file", TRUE)
    /\ UNCHANGED <<control, dates, sink>>
    /\ UNCHANGED Rest

\* write_control_file(executeParms); executeParms = get_parms(); the end of
\* main, or the except
WriteParms ==
    /\ pc = "write_ctl"
    /\ control' = write_control_file_export(dates)
    /\ IF get_parms(control').raised
       THEN /\ AbortExport("get_parms", FALSE)
            /\ dates' = dates
       ELSE /\ dates' = get_parms(control').value
            /\ pc' = "stopped"
            /\ exitCode' = "0"
            /\ last' = Step("get_parms", "ok", FALSE)
            /\ UNCHANGED <<xml, df>>
    /\ UNCHANGED sink
    /\ UNCHANGED Rest

\* open() fails and leaves the file, or json.dump fails and leaves it cut
WriteParmsFails ==
    /\ pc = "write_ctl"
    /\ control' \in {control, CutFile}
    /\ AbortExport("write_ctl", TRUE)
    /\ UNCHANGED <<dates, sink>>
    /\ UNCHANGED Rest

NextExport ==
    \/ StartExport
    \/ CallApiExport
    \/ ParseExport
    \/ WriteFiles
    \/ WriteFilesFails
    \/ WriteParms
    \/ WriteParmsFails

SpecExport == InitExport /\ [][NextExport]_vars

-----------------------------------------------------------------------------
(* Claims on the control file of the file-export pipeline (SpecExport) *)

\* get_parms has run on the file write_control_file has just written
Reloaded == last.at = "get_parms"

\* C21: after main has written its parameters with write_control_file, the
\* get_parms that follows succeeds and returns the values main held, the run
\* ends with exit code 0, and the control file is one get_parms can load.
C21_ControlRoundTrip ==
    Reloaded =>
        /\ last.res = "ok"
        /\ exitCode = "0"
        /\ ~get_parms(control).raised
        /\ get_parms(control).value = dates

\* the values write_control_file has written are those of the file the run
\* started from, the report date without its fraction of a second
C21_ValuesWritten ==
    Reloaded =>
        /\ control.valid
        /\ control.obj = [k \in DOMAIN dates |->
                            IF k = "report_date" THEN isoformat(dates[k]) ELSE dates[k]]
        /\ "use_pervacio_schema" \notin DOMAIN control.obj
        /\ "old_format" \in DOMAIN control.obj

=============================================================================
